---- MODULE Spec2Model ----
(***************************************************************************)
(* Fringe-tracker simulation: the tracking loop of group_delay_sim_loop.py *)
(* and the delay estimators of fringe_functions.py.                        *)
(*                                                                         *)
(* Floating-point values are records [k, v]: k = "fin" carries an exact    *)
(* integer v; "big" is a finite value of at least 1e10; "inf", "ninf" and  *)
(* "nan" are the IEEE non-finite values.  Delays are counted in half steps *)
(* of the trial-delay grid.                                                *)
(***************************************************************************)
EXTENDS Integers, Sequences, FiniteSets, TLC

VARIABLES
    j,                  \* frames of the tracking loop completed so far
    frame_num,          \* the loop's frame counter
    fix_delay,          \* correction delay
    vis_array,          \* recorded squared-visibility estimates
    ave_delay_envelope, \* running-average envelope
    bad_delay,          \* atmospheric delay drawn in the last frame
    delay_fix,          \* delay_fix argument of the last cal_coherence call
    eff_delay,          \* effective delay of the last simulated fringes
    fluxes,             \* noisy counts of the last frame, 3 outputs x channels
    gamma,              \* complex coherence of the last frame, per channel
    delay_envelope,     \* delay envelope of the last frame
    exc,                \* exception that ended the loop, "none" while it runs
    call,               \* estimator harness: the function called last
    arg_trial_delays,   \* its trial_delays argument
    arg_envelope,       \* delay_envelope argument of find_delay
    arg_gamma,          \* gamma argument of group_delay_envelope
    arg_wavelengths,    \* wavelengths argument of find_delay_AC
    arg_gamma_r,        \* gamma_r argument of find_delay_AC
    arg_cos,            \* model cosine per (delay, channel) of calc_chi_2_AC
    arg_plot,           \* plot argument of find_delay_AC
    outcome             \* how the call ended: return value or raised exception

loopVars == <<j, frame_num, fix_delay, vis_array, ave_delay_envelope,
              bad_delay, delay_fix, eff_delay, fluxes, gamma, delay_envelope, exc>>
estVars == <<call, arg_trial_delays, arg_envelope, arg_gamma, arg_wavelengths,
             arg_gamma_r, arg_cos, arg_plot, outcome>>
vars == <<loopVars, estVars>>

---------------------------------------------------------------------------
\* Bounds of the model.

\* Number of frames of the tracking loop (100 in the script).
n_iter == 3
\* Frames per incoherent integration (int(30*t0/(1.6*t0)) = 18 in the script).
num_group_delay_frames == 2
\* Longest trial-delay sequence handed to an estimator by the harness.
MaxTrial == 3

---------------------------------------------------------------------------
\* Floating-point values.

Fin(n) == [k |-> "fin", v |-> n]
Big == [k |-> "big", v |-> 0]
PInf == [k |-> "inf", v |-> 0]
NInf == [k |-> "ninf", v |-> 0]
NaN == [k |-> "nan", v |-> 0]

IsNaN(x) == x.k = "nan"
IsFinite(x) == x.k \in {"fin", "big"}

\* x + y.  "big" only meets non-negative operands (chi-squared terms).
FAdd(x, y) ==
    IF IsNaN(x) \/ IsNaN(y) THEN NaN
    ELSE IF {x.k, y.k} = {"inf", "ninf"} THEN NaN
    ELSE IF "inf" \in {x.k, y.k} THEN PInf
    ELSE IF "ninf" \in {x.k, y.k} THEN NInf
    ELSE IF "big" \in {x.k, y.k} THEN Big
    ELSE Fin(x.v + y.v)

\* x < y.  Every comparison with NaN is false.  The only "big" right operand
\* is the threshold 1e10 itself, the least "big" value.
FLess(x, y) ==
    IF IsNaN(x) \/ IsNaN(y) THEN FALSE
    ELSE IF x.k = "ninf" THEN y.k # "ninf"
    ELSE IF y.k = "ninf" THEN FALSE
    ELSE IF x.k = "inf" THEN FALSE
    ELSE IF y.k = "inf" THEN TRUE
    ELSE IF x.k = "big" THEN FALSE
    ELSE IF y.k = "big" THEN TRUE
    ELSE x.v < y.v

\* x <= y.
FLessEq(x, y) ==
    IF IsNaN(x) \/ IsNaN(y) THEN FALSE
    ELSE (x.k = y.k /\ x.v = y.v) \/ FLess(x, y)

\* n / d for numbers n (in thousandths) and d: numpy yields inf, -inf or nan
\* on a zero divisor instead of raising.
FDiv(n, d) ==
    IF d = 0 THEN (IF n > 0 THEN PInf ELSE IF n < 0 THEN NInf ELSE NaN)
    ELSE IF d > 0 THEN Fin(n \div d)
    ELSE Fin((0 - n) \div (0 - d))

\* A call's outcome: a returned delay, a returned envelope, or an exception.
Return(d) == [k |-> "return", delay |-> d, envelope |-> <<>>, exc |-> "none"]
ReturnEnvelope(e) == [k |-> "return", delay |-> 0, envelope |-> e, exc |-> "none"]
Raise(e) == [k |-> "raise", delay |-> 0, envelope |-> <<>>, exc |-> e]
NoCall == [k |-> "none", delay |-> 0, envelope |-> <<>>, exc |-> "none"]

---------------------------------------------------------------------------
\* Configuration of the simulation script.

\* The first of the script's wavelength channels, in units of 0.1 nm.
wavelengths == <<6075>>

\* trial_delays = scale*arange(-Num_delays/2+1, Num_delays/2)/wavenumber_bandpass:
\* a grid symmetric about zero, here its two entries for Num_delays = 3, in
\* half steps.
trial_delays == <<-1, 1>>

\* bad_delay = 2*error_rms*random_sample() - error_rms.
BadDelays == {-1, 1}

\* Counts a detector output can hold: round(poisson + normal), any sign.
FluxVals == {-1, 0, 1}

\* Finite white-light fringe intensities (non-negative).
FringeVals == {0, 1000}

\* a*x with a = 1 - exp(-coh_int_time/incoh_int_time) = 0.0519...
a_times(x) == IF x.k = "fin" THEN Fin((519 * x.v) \div 10000) ELSE x

\* (1-a)*x.
one_minus_a_times(x) == IF x.k = "fin" THEN Fin((9481 * x.v) \div 10000) ELSE x

---------------------------------------------------------------------------
\* Tricoupler functions.

Channels == 1..Len(wavelengths)

\* cal_coherence: effective delay, then per channel
\* gamma = (3*fluxes[0] + sqrt(3)*1j*(fluxes[2]-fluxes[1]))/sum(fluxes) - 1,
\* in thousandths.  fl is the noisy count matrix the noise model produced.
cal_coherence(delay_bad, fix, fl) ==
    [eff_delay |-> delay_bad - fix,
     gamma |-> [c \in Channels |->
        LET total == fl[1][c] + fl[2][c] + fl[3][c]
        IN  [re |-> FAdd(FDiv(3000 * fl[1][c], total), Fin(-1000)),
             im |-> FDiv(1732 * (fl[3][c] - fl[2][c]), total)]]]

\* Values abs(sum(gamma*exp(1j*2*pi/wavelengths*delay)))**2 can take, by the
\* finiteness of gamma: a NaN component makes the sum NaN; an infinite one
\* makes it inf, or NaN where infinities cancel; a finite gamma gives a
\* finite non-negative intensity.
find_white_fringe(g) ==
    IF \E c \in DOMAIN g : IsNaN(g[c].re) \/ IsNaN(g[c].im) THEN {NaN}
    ELSE IF \E c \in DOMAIN g : ~IsFinite(g[c].re) \/ ~IsFinite(g[c].im)
         THEN {PInf, NaN}
    ELSE {Fin(v) : v \in FringeVals}

\* group_delay_envelope: one white-light fringe intensity per trial delay, in
\* the order of trial_delays; the empty sequence for no trial delays.
group_delay_envelope(g, trials) ==
    [1..Len(trials) -> find_white_fringe(g)]

\* The scan of numpy's argmax from position i on: a later entry replaces the
\* running maximum mp unless it is <= mp, and a NaN ends the scan.
RECURSIVE ArgmaxScan(_, _, _, _)
ArgmaxScan(s, i, mp, idx) ==
    IF i > Len(s) THEN idx
    ELSE IF ~FLessEq(s[i], mp)
         THEN (IF IsNaN(s[i]) THEN i ELSE ArgmaxScan(s, i + 1, s[i], i))
    ELSE ArgmaxScan(s, i + 1, mp, idx)

\* Mutant: a later entry replaces the running maximum on a tie as well, so the
\* last of several equal maxima is found.
RECURSIVE ArgmaxScanLast(_, _, _, _)
ArgmaxScanLast(s, i, mp, idx) ==
    IF i > Len(s) THEN idx
    ELSE IF ~FLess(s[i], mp)
         THEN (IF IsNaN(s[i]) THEN i ELSE ArgmaxScanLast(s, i + 1, s[i], i))
    ELSE ArgmaxScanLast(s, i + 1, mp, idx)

argmax_last(s) ==
    IF s = <<>> THEN 0
    ELSE IF IsNaN(s[1]) THEN 1
    ELSE ArgmaxScanLast(s, 2, s[1], 1)

\* Mutant: a scan by "greater than", which never adopts a NaN.
RECURSIVE ArgmaxScanGreater(_, _, _, _)
ArgmaxScanGreater(s, i, mp, idx) ==
    IF i > Len(s) THEN idx
    ELSE IF FLess(mp, s[i]) THEN ArgmaxScanGreater(s, i + 1, s[i], i)
    ELSE ArgmaxScanGreater(s, i + 1, mp, idx)

argmax_nan_blind(s) ==
    IF s = <<>> THEN 0 ELSE ArgmaxScanGreater(s, 2, s[1], 1)

\* np.argmax, 1-based; 0 stands for the ValueError on an empty sequence.
argmax(s) ==
    IF s = <<>> THEN 0
    ELSE IF IsNaN(s[1]) THEN 1
    ELSE ArgmaxScan(s, 2, s[1], 1)

\* Mutant: an argmax that rejects NaN entries with an exception.
find_delay_strict(envelope, trials) ==
    LET i == argmax(envelope)
    IN  IF i = 0 \/ \E k \in DOMAIN envelope : IsNaN(envelope[k])
        THEN Raise("ValueError")
        ELSE IF i > Len(trials) THEN Raise("IndexError")
        ELSE Return(trials[i])

\* find_delay: trial_delays[np.argmax(delay_envelope)].
find_delay(envelope, trials) ==
    LET i == argmax(envelope)
    IN  IF i = 0 THEN Raise("ValueError")
        ELSE IF i > Len(trials) THEN Raise("IndexError")
        ELSE Return(trials[i])

---------------------------------------------------------------------------
\* Tracking loop.

\* Noisy count matrices: 3 outputs, one count per channel.
FluxMatrices == [1..3 -> [Channels -> FluxVals]]

\* Mutant: the two weights exchanged.
running_average_swapped(envelope, ave) ==
    [i \in DOMAIN ave |-> FAdd(one_minus_a_times(envelope[i]), a_times(ave[i]))]

\* ave_delay_envelope = a*delay_envelope + (1-a)*ave_delay_envelope.
running_average(envelope, ave) ==
    [i \in DOMAIN ave |-> FAdd(a_times(envelope[i]), one_minus_a_times(ave[i]))]

\* Mutant: the gate off by one.
gate_le(fn) == fn <= num_group_delay_frames

\* The gate of the group-delay update.
gate(fn) == fn < num_group_delay_frames

\* The delay_fix argument the loop hands to cal_coherence.
loop_delay_fix(fix) == 0

\* np.mean(np.abs(new_gamma)**2) - bias_vis, reduced to whether the mean is
\* finite; bias_vis is a constant of the run.
vis_estimate(g) ==
    IF \A c \in DOMAIN g : IsFinite(g[c].re) /\ IsFinite(g[c].im)
    THEN "finite" ELSE "nonfinite"

LoopInit ==
    /\ j = 0
    /\ frame_num = 0
    /\ fix_delay = 0
    /\ vis_array = <<>>
    /\ ave_delay_envelope = [i \in 1..Len(trial_delays) |-> Fin(0)]
    /\ bad_delay = 0
    /\ delay_fix = 0
    /\ eff_delay = 0
    /\ fluxes = [o \in 1..3 |-> [c \in Channels |-> 0]]
    /\ gamma = [c \in Channels |-> [re |-> Fin(0), im |-> Fin(0)]]
    /\ delay_envelope = [i \in 1..Len(trial_delays) |-> Fin(0)]
    /\ exc = "none"

\* One pass of the body of the tracking loop.
Frame ==
    /\ j < n_iter
    /\ exc = "none"
    /\ \E bd \in BadDelays, fl \in FluxMatrices :
        LET coh == cal_coherence(bd, loop_delay_fix(fix_delay), fl)
        IN  \E env \in group_delay_envelope(coh.gamma, trial_delays) :
            LET ave == running_average(env, ave_delay_envelope)
                est == find_delay(ave, trial_delays)
            IN  /\ bad_delay' = bd
                /\ delay_fix' = loop_delay_fix(fix_delay)
                /\ eff_delay' = coh.eff_delay
                /\ fluxes' = fl
                /\ gamma' = coh.gamma
                /\ delay_envelope' = env
                /\ ave_delay_envelope' = ave
                /\ IF gate(frame_num)
                   THEN IF est.k = "raise"
                        THEN /\ exc' = est.exc
                             /\ UNCHANGED <<fix_delay, vis_array, frame_num, j>>
                        ELSE /\ fix_delay' = est.delay
                             /\ vis_array' = Append(vis_array,
                                                vis_estimate(coh.gamma))
                             /\ frame_num' = frame_num + 1
                             /\ j' = j + 1
                             /\ exc' = exc
                   ELSE /\ frame_num' = frame_num + 1
                        /\ j' = j + 1
                        /\ UNCHANGED <<fix_delay, vis_array, exc>>
    /\ UNCHANGED estVars

EstIdle ==
    /\ call = "none"
    /\ arg_trial_delays = <<>>
    /\ arg_envelope = <<>>
    /\ arg_gamma = <<>>
    /\ arg_wavelengths = <<>>
    /\ arg_gamma_r = <<>>
    /\ arg_cos = <<>>
    /\ arg_plot = FALSE
    /\ outcome = NoCall

Init == LoopInit /\ EstIdle

Next == Frame

Spec == Init /\ [][Next]_vars

---------------------------------------------------------------------------
\* AC functions.

\* (np.cos(2*pi*delay/wavelengths - phaseshift_glass(...)) - gamma_r)**2 for
\* one channel, given the value cosv of the model cosine.
chi_lam(cosv, g) ==
    IF g.k = "fin" THEN Fin((cosv - g.v) * (cosv - g.v))
    ELSE IF g.k = "big" THEN Big
    ELSE IF IsNaN(g) THEN NaN
    ELSE PInf

RECURSIVE FSum(_)
FSum(s) == IF s = <<>> THEN Fin(0) ELSE FAdd(Head(s), FSum(Tail(s)))

\* calc_chi_2_AC: the sum of chi_lam over the channels.  cosT[<<delay, c>>]
\* is the model cosine of channel c at that delay.
calc_chi_2_AC(gamma_r, delay, wl, cosT) ==
    FSum([c \in 1..Len(wl) |-> chi_lam(cosT[<<delay, c>>], gamma_r[c])])

\* chi_2_min = 1e10, and delay_min not yet bound.
ScanStart == [chi_2_min |-> Big, bound |-> FALSE, delay_min |-> 0, plot_array |-> <<>>]

\* Mutant: the plot branch adopting a later trial delay on a tie.
RECURSIVE scan_plot_le(_, _, _, _, _, _)
scan_plot_le(gamma_r, trials, wl, cosT, i, st) ==
    IF i > Len(trials) THEN st
    ELSE LET chi_2 == calc_chi_2_AC(gamma_r, trials[i], wl, cosT)
             arr == Append(st.plot_array, chi_2)
         IN  IF FLessEq(chi_2, st.chi_2_min)
             THEN scan_plot_le(gamma_r, trials, wl, cosT, i + 1,
                    [chi_2_min |-> chi_2, bound |-> TRUE,
                     delay_min |-> trials[i], plot_array |-> arr])
             ELSE scan_plot_le(gamma_r, trials, wl, cosT, i + 1,
                    [st EXCEPT !.plot_array = arr])

\* The scan of the plot branch from trial delay i on.
RECURSIVE scan_plot(_, _, _, _, _, _)
scan_plot(gamma_r, trials, wl, cosT, i, st) ==
    IF i > Len(trials) THEN st
    ELSE LET chi_2 == calc_chi_2_AC(gamma_r, trials[i], wl, cosT)
             arr == Append(st.plot_array, chi_2)
         IN  IF FLess(chi_2, st.chi_2_min)
             THEN scan_plot(gamma_r, trials, wl, cosT, i + 1,
                    [chi_2_min |-> chi_2, bound |-> TRUE,
                     delay_min |-> trials[i], plot_array |-> arr])
             ELSE scan_plot(gamma_r, trials, wl, cosT, i + 1,
                    [st EXCEPT !.plot_array = arr])

\* The scan of the branch without plotting from trial delay i on.
RECURSIVE scan_no_plot(_, _, _, _, _, _)
scan_no_plot(gamma_r, trials, wl, cosT, i, st) ==
    IF i > Len(trials) THEN st
    ELSE LET chi_2 == calc_chi_2_AC(gamma_r, trials[i], wl, cosT)
         IN  IF FLess(chi_2, st.chi_2_min)
             THEN scan_no_plot(gamma_r, trials, wl, cosT, i + 1,
                    [st EXCEPT !.chi_2_min = chi_2, !.bound = TRUE,
                               !.delay_min = trials[i]])
             ELSE scan_no_plot(gamma_r, trials, wl, cosT, i + 1, st)

\* find_delay_AC: returning delay_min raises UnboundLocalError when no trial
\* delay was adopted.
find_delay_AC(gamma_r, trials, wl, cosT, plot) ==
    LET st == IF plot THEN scan_plot(gamma_r, trials, wl, cosT, 1, ScanStart)
              ELSE scan_no_plot(gamma_r, trials, wl, cosT, 1, ScanStart)
    IN  IF st.bound THEN Return(st.delay_min) ELSE Raise("UnboundLocalError")

---------------------------------------------------------------------------
\* The delay estimators called on their own, once, on inputs of bounded size.

Delays == {-1, 0, 1}
TrialSeqs == UNION {[1..n -> Delays] : n \in 0..MaxTrial}
EnvelopeVals == {Fin(0), Fin(1000), PInf, NaN}
GammaRVals == {Fin(0), Fin(1), Big, PInf, NaN}
CosVals == {-1, 1}
WavelengthSeqs == {<<6075>>, <<6075, 6225>>}
GammaInputs == {cal_coherence(0, 0, fl).gamma : fl \in FluxMatrices}

CallGroupDelayEnvelope ==
    /\ call = "none"
    /\ \E trials \in TrialSeqs, g \in GammaInputs :
        \E env \in group_delay_envelope(g, trials) :
            /\ call' = "group_delay_envelope"
            /\ arg_trial_delays' = trials
            /\ arg_gamma' = g
            /\ outcome' = ReturnEnvelope(env)
    /\ UNCHANGED <<arg_envelope, arg_wavelengths, arg_gamma_r, arg_cos, arg_plot>>
    /\ UNCHANGED loopVars

CallFindDelay ==
    /\ call = "none"
    /\ \E trials \in TrialSeqs :
        \E env \in [1..Len(trials) -> EnvelopeVals] :
            /\ call' = "find_delay"
            /\ arg_trial_delays' = trials
            /\ arg_envelope' = env
            /\ outcome' = find_delay(env, trials)
    /\ UNCHANGED <<arg_gamma, arg_wavelengths, arg_gamma_r, arg_cos, arg_plot>>
    /\ UNCHANGED loopVars

CallFindDelayAC ==
    /\ call = "none"
    /\ \E trials \in TrialSeqs, wl \in WavelengthSeqs, plot \in BOOLEAN :
        \E gamma_r \in [1..Len(wl) -> GammaRVals],
           cosT \in [Delays \X (1..Len(wl)) -> CosVals] :
            /\ call' = "find_delay_AC"
            /\ arg_trial_delays' = trials
            /\ arg_wavelengths' = wl
            /\ arg_gamma_r' = gamma_r
            /\ arg_cos' = cosT
            /\ arg_plot' = plot
            /\ outcome' = find_delay_AC(gamma_r, trials, wl, cosT, plot)
    /\ UNCHANGED <<arg_envelope, arg_gamma>>
    /\ UNCHANGED loopVars

NextEst == CallGroupDelayEnvelope \/ CallFindDelay \/ CallFindDelayAC

SpecEst == Init /\ [][NextEst]_vars

---------------------------------------------------------------------------
\* Properties of the tracking loop.

Range(s) == {s[i] : i \in DOMAIN s}
Min(m, n) == IF m < n THEN m ELSE n
TrialIdx == 1..Len(trial_delays)
FirstNaN(s) == CHOOSE i \in DOMAIN s : IsNaN(s[i]) /\ \A k \in 1..(i - 1) : ~IsNaN(s[k])
ZeroFlux(c) == fluxes[1][c] + fluxes[2][c] + fluxes[3][c] = 0

\* C1: every frame hands the correction delay held at its start to the
\* coherence simulation as delay_fix, so that the effective delay of the
\* simulated fringes is the atmospheric delay minus the correction delay.
C1_DelayFixIsCorrection ==
    [][j' = j + 1 =>
        /\ delay_fix' = fix_delay
        /\ eff_delay' = bad_delay' - fix_delay]_vars

ExpectedMix(e, p) ==
    IF IsNaN(e) \/ IsNaN(p) THEN NaN
    ELSE IF e.k = "inf" \/ p.k = "inf" THEN PInf
    ELSE Fin((519 * e.v) \div 10000 + (9481 * p.v) \div 10000)

\* C3: the running average starts as all zeros, always has the length of the
\* trial-delay sequence, and every frame, gated or not, replaces it by
\* a*current_envelope + (1-a)*previous_running_average, elementwise.
C3_RunningAverage ==
    /\ [](/\ Len(ave_delay_envelope) = Len(trial_delays)
          /\ (j = 0 => \A i \in TrialIdx : ave_delay_envelope[i] = Fin(0)))
    /\ [][\A i \in TrialIdx :
            ave_delay_envelope'[i]
                = ExpectedMix(delay_envelope'[i], ave_delay_envelope[i])]_vars

C3_Witness ==
    /\ j > num_group_delay_frames
    /\ delay_envelope[1] = Fin(1000)
    /\ ave_delay_envelope[1] = Fin(51)
    /\ ave_delay_envelope[2].k = "fin"
    /\ ave_delay_envelope[2].v > 51

\* C8: a frame whose total flux is zero in a channel yields a non-finite
\* coherence for that channel and no exception; the envelope and find_delay
\* complete, find_delay returns a trial delay, and the loop keeps running.
C8_ZeroFluxTolerated ==
    /\ exc = "none"
    /\ \A c \in Channels :
        (j > 0 /\ ZeroFlux(c)) =>
            /\ ~IsFinite(gamma[c].re)
            /\ ~IsFinite(gamma[c].im)
            /\ Len(delay_envelope) = Len(trial_delays)
            /\ \A i \in TrialIdx : ~IsFinite(delay_envelope[i])
            /\ (j <= num_group_delay_frames => fix_delay \in Range(trial_delays))
    /\ (j < n_iter => ENABLED Frame)

C8_Witness ==
    /\ j = n_iter
    /\ exc = "none"
    /\ vis_array[1] = "nonfinite"
    /\ \E c \in Channels : ZeroFlux(c)

\* C10: a NaN entry of a frame's envelope makes the running average NaN at
\* that index in that frame and in every later frame, and every
\* re-estimation made while the running average holds a NaN selects the
\* trial delay at its first NaN index.
C10_NaNNeverRecovered ==
    /\ [](\A i \in TrialIdx :
            (j > 0 /\ IsNaN(delay_envelope[i])) => IsNaN(ave_delay_envelope[i]))
    /\ [][\A i \in TrialIdx :
            IsNaN(ave_delay_envelope[i]) => IsNaN(ave_delay_envelope'[i])]_vars
    /\ []((/\ 0 < j
           /\ j <= num_group_delay_frames
           /\ \E i \in TrialIdx : IsNaN(ave_delay_envelope[i]))
          => fix_delay = trial_delays[FirstNaN(ave_delay_envelope)])

C10_Witness ==
    /\ j = 2
    /\ j <= num_group_delay_frames
    /\ IsFinite(delay_envelope[1])
    /\ IsFinite(delay_envelope[2])
    /\ ave_delay_envelope[1] = PInf
    /\ IsNaN(ave_delay_envelope[2])
    /\ fix_delay = trial_delays[2]

---------------------------------------------------------------------------
\* Properties of the delay estimators.

Chi2(i) == calc_chi_2_AC(arg_gamma_r, arg_trial_delays[i], arg_wavelengths, arg_cos)
TrialArgIdx == 1..Len(arg_trial_delays)

\* C4: for a non-empty trial-delay sequence and an envelope of the same
\* length with finite entries, find_delay returns the trial delay at the
\* smallest index at which the envelope attains its maximum.
C4_FindDelayFirstMax ==
    (/\ call = "find_delay"
     /\ arg_trial_delays # <<>>
     /\ \A i \in TrialArgIdx : IsFinite(arg_envelope[i]))
    => \E i \in TrialArgIdx :
        /\ \A k \in TrialArgIdx : arg_envelope[k].v <= arg_envelope[i].v
        /\ \A k \in 1..(i - 1) : arg_envelope[k].v < arg_envelope[i].v
        /\ outcome = Return(arg_trial_delays[i])

C4_Witness ==
    /\ call = "find_delay"
    /\ arg_trial_delays = <<-1, 0, 1>>
    /\ arg_envelope = <<Fin(0), Fin(1000), Fin(1000)>>
    /\ outcome = Return(0)

\* C5: for every non-empty trial-delay sequence find_delay_AC returns the
\* trial delay of minimal chi-squared, the first such in scan order.
C5_FindDelayACFirstMin ==
    (call = "find_delay_AC" /\ arg_trial_delays # <<>>)
    => /\ outcome.k = "return"
       /\ \E i \in TrialArgIdx :
            /\ outcome.delay = arg_trial_delays[i]
            /\ \A k \in TrialArgIdx : FLessEq(Chi2(i), Chi2(k))
            /\ \A k \in 1..(i - 1) : FLess(Chi2(i), Chi2(k))

\* C6: for a non-empty trial-delay sequence both delay searches return an
\* element of the sequence, whatever the envelope or gamma_r.
C6_SearchReturnsTrialDelay ==
    (call \in {"find_delay", "find_delay_AC"} /\ arg_trial_delays # <<>>)
    => /\ outcome.k = "return"
       /\ outcome.delay \in Range(arg_trial_delays)

\* C7: given an empty trial-delay sequence, group_delay_envelope, find_delay
\* and find_delay_AC each end with an error and never return normally.
C7_EmptyTrialDelaysFail ==
    (call # "none" /\ arg_trial_delays = <<>>) => outcome.k = "raise"

\* C9: find_delay_AC ends the same way with plot=True as with plot=False.
C9_PlotBranchesAgree ==
    call = "find_delay_AC"
    => outcome = find_delay_AC(arg_gamma_r, arg_trial_delays, arg_wavelengths,
                               arg_cos, ~arg_plot)

C9_Witness ==
    /\ call = "find_delay_AC"
    /\ arg_plot
    /\ Len(arg_trial_delays) = 3
    /\ arg_trial_delays[2] # arg_trial_delays[3]
    /\ Chi2(2) = Chi2(3)
    /\ FLess(Chi2(2), Chi2(1))
    /\ outcome = Return(arg_trial_delays[2])

====
